---- MODULE Spec2Model ----
(***************************************************************************)
(* Task lifecycle and claim-processing engine of the speech-to-text app:   *)
(* the tasks table, the upload directory, the Status API (POST / DELETE    *)
(* /api/tasks), the worker API (GET / PATCH /api/worker/tasks and the      *)
(* payload file endpoints), the queue worker processor, the legacy         *)
(* /api/transcribe route and the Transcription Client (retryWithBackoff,   *)
(* the inline and the staged path).  Every await is a step boundary.       *)
(***************************************************************************)
EXTENDS Integers, Sequences, FiniteSets, TLC

\* ------------------------------------------------------------------ bounds
\* ids handed out in a run of Spec, of SpecClaim and of SpecCreate
MaxTasks == 1
MaxPending == 2
MaxUploads == 2
\* last reading of the clock
MaxTime == 1

\* ------------------------------------------------------- program constants
maxSize == 524288000
MAX_DURATION_SECONDS == 18000

Null == "null"

TaskIds == 1..MaxTasks
Workers == {"w1", "w2"}
CreateReqs == {"c1", "c2"}
DeleteReqs == {"d1"}
LegacyReqs == {"l1"}

SUPPORTED_EXTENSIONS ==
    {".mp3", ".wav", ".m4a", ".flac", ".ogg", ".webm", ".aac", ".aiff"}

\* the extension list the cleanup loops try, in order
extensions ==
    <<".mp3", ".wav", ".m4a", ".flac", ".ogg", ".webm", ".aac", ".aiff", "">>

taskStatusEnum ==
    {"pending", "uploading", "processing", "completed", "failed", "cancelled"}

Terminal == {"completed", "failed", "cancelled"}

\* String.prototype.toLowerCase on the extensions the model uploads
toLowerCase(ext) == IF ext = ".MP3" THEN ".mp3" ELSE ext

\* isSupportedFormat(fileName): lower-cases the name before taking the
\* suffix from the last "."
isSupportedFormat(ext) == toLowerCase(ext) \in SUPPORTED_EXTENSIONS

\* path.extname(file.name): the suffix as written, case preserved
extname(ext) == ext

\* ---------------------------------------------------------------- inputs
NoUpload == [ext |-> "", size |-> 0, duration |-> 0]

Uploads ==
    [ext : {".mp3", ".MP3", ".txt"},
     size : {maxSize, maxSize + 1},
     duration : {MAX_DURATION_SECONDS, MAX_DURATION_SECONDS + 1}]

Transcript == "transcript"

\* process.env.WORKER_API_KEY of the deployment; "" when it is not set
WORKER_API_KEY == "secret"

Bearer(key) == "Bearer " \o key

\* req.headers.get("Authorization"): absent, a token that is not the key,
\* the key without the scheme, the matching bearer token
NoHeader == Null
Headers == {NoHeader, Bearer("guess"), WORKER_API_KEY, Bearer(WORKER_API_KEY)}

\* claim, PATCH update, task status, payload fetch, payload delete
WorkerEndpoints ==
    {"GET /api/worker/tasks", "PATCH /api/worker/tasks",
     "GET /api/worker/tasks/[id]", "GET /api/worker/tasks/[id]/file",
     "DELETE /api/worker/tasks/[id]/file"}

DownloadEndpoint == "GET /api/tasks/[id]/download"

\* await auth(): no session, a user not yet approved, an approved user, an
\* approved administrator
NoSession == [user |-> Null, status |-> "", isAdmin |-> FALSE]
Sessions ==
    {NoSession,
     [user |-> "u1", status |-> "PENDING", isAdmin |-> FALSE],
     [user |-> "u1", status |-> "APPROVED", isAdmin |-> FALSE],
     [user |-> "admin", status |-> "APPROVED", isAdmin |-> TRUE]}

\* process.env.INTERNAL_API_TOKEN of the deployment
INTERNAL_API_TOKEN == "internal-token"

InternalEndpoint == "GET /api/internal/tasks"

\* req.headers.get("X-Auth-Token"): absent, empty, another token, the token
Tokens == {Null, "", "guess", INTERNAL_API_TOKEN}

\* the users table: id by email
Emails == {"a@example.org", "b@example.org"}
UserIdOf(email) == IF email = "a@example.org" THEN "u1" ELSE "u2"

\* the search parameters of the lookup; Null for an absent one
StatusParams == {Null, "failed", "completed, failed"}
NoQuery ==
    [email |-> Null, userId |-> Null, status |-> Null, limit |-> Null,
     table |-> <<>>]

\* the rows of the tasks table the lookup reads: owner, status, createdAt
MaxRows == 2
OwnedRows ==
    [userId : {"u1", "u2"}, status : {"pending", "failed"}, createdAt : {0}]
OwnedTables == [1..MaxRows -> OwnedRows]

Queries ==
    {[email |-> e, userId |-> u, status |-> st, limit |-> l, table |-> tb] :
        e \in {Null, "a@example.org", "c@example.org"},
        u \in {Null, "u2"},
        st \in StatusParams,
        l \in {Null, "1"},
        tb \in OwnedTables}

\* the JSON bodies of the error responses
Unauthorized == "{error: Unauthorized}"
NotApproved == "{error: Account not approved}"
TaskNotFound == "{error: Task not found}"
FileNotFound == "{error: File not found}"
NotCompleted == "{error: Task is not completed yet}"
ErrorBodies == {Unauthorized, NotApproved, TaskNotFound, FileNotFound, NotCompleted}
TranscribeError == "Transcription failed"


\* ------------------------------------------- Transcription Client constants
\* the two copies of the Gemini library in the repository: the module behind
\* "@/lib/gemini" and the copy that follows the auth configuration
GeminiLib == "src/lib/gemini.ts"
AuthConfigLib == "src/auth.config.ts"
Libs == {GeminiLib, AuthConfigLib}

Entries == {"transcribeAudio", "transcribeAudioSimple"}

\* retryWithBackoff(label, fn, attempts = 3, baseDelayMs = 2000)
DefaultAttempts == 3
DefaultBaseDelayMs == 2000

\* waitForFileReady(fileName, maxAttempts = 360)
maxAttempts == 360

MB == 1024 * 1024

\* buffer.length of the payloads handed to the client
Sizes == {15 * MB, 15 * MB + 1, 20 * MB}

\* errors a call to the provider can throw: code is err.cause.code || err.code,
\* status is err.status || err.statusCode
NoError == [code |-> "", message |-> "", status |-> 0]
ConnReset == [code |-> "ECONNRESET", message |-> "read ECONNRESET", status |-> 0]
HeadersTimeout ==
    [code |-> "UND_ERR_HEADERS_TIMEOUT", message |-> "fetch failed", status |-> 0]
ConnTimeout == [code |-> "ETIMEDOUT", message |-> "connect ETIMEDOUT", status |-> 0]
Unavailable == [code |-> "", message |-> "Service Unavailable", status |-> 503]
BadRequest == [code |-> "", message |-> "Bad Request", status |-> 400]
Malformed == [code |-> "", message |-> "Unexpected token", status |-> 0]

ProviderErrors ==
    {ConnReset, HeadersTimeout, ConnTimeout, Unavailable, BadRequest, Malformed}

\* errors the library throws itself
ProcessingFailed == [code |-> "", message |-> "File processing failed", status |-> 0]
TimedOut == [code |-> "", message |-> "File processing timed out", status |-> 0]
EmptyResponse ==
    [code |-> "", message |-> "Gemini API returned empty response", status |-> 0]
SyntaxError == [code |-> "", message |-> "Unexpected end of JSON input", status |-> 0]

\* response.text of a generation call: a JSON document, plain text, nothing
JsonBody == "{summary, segments}"
TextBody == "[00:01] Speaker 1: ..."
EmptyBody == ""
Bodies == {JsonBody, TextBody, EmptyBody}

\* file.name of an upload
FileName == "files/abc"

\* fileInfo.state of a status poll
FileStates == {"ACTIVE", "PROCESSING", "FAILED", "STATE_UNSPECIFIED"}

\* ----------------------------------------------------------------- state
VARIABLES
    tasks,      \* the tasks table: id -> row, for the ids that have a row
    files,      \* the upload directory: path -> content
    now,        \* the clock behind NOW(), new Date() and Date.now()
    nextId,     \* number of ids handed out by gen_random_uuid() so far
    locks,      \* row locks held by in-flight claim statements: id -> worker
    worker,     \* per worker: position, task in hand, last claim response and
                \* the locked rows a {task: null} call passed over
    claimCount, \* per id: how many claim calls have returned it
    create,     \* per POST /api/tasks request
    delete,     \* per DELETE /api/tasks request
    legacy,     \* per POST /api/transcribe request
    client,     \* the call of the Transcription Client in progress
    reply       \* the last request to a worker endpoint or to Download,
                \* and the response to it so far

vars == <<tasks, files, now, nextId, locks, worker, claimCount,
          create, delete, legacy, client, reply>>

\* ---------------------------------------------------------------- helpers
Empty == [x \in {} |-> 0]

TaskPath(id, ext) == <<"task", id, ext>>
TempPath(t, ext) == <<"temp", t, ext>>

Exists(fs, p) == p \in DOMAIN fs

WriteFile(fs, p, c) == [q \in (DOMAIN fs) \cup {p} |-> IF q = p THEN c ELSE fs[q]]

Unlink(fs, p) == [q \in (DOMAIN fs) \ {p} |-> fs[q]]

Rename(fs, from, to) == WriteFile(Unlink(fs, from), to, fs[from])

\* db.update(tasks).set(fields).where(eq(tasks.id, id)): no row, no effect
Update(ts, id, fields) ==
    IF id \in DOMAIN ts
    THEN [ts EXCEPT ![id] =
            [f \in DOMAIN ts[id] |->
                IF f \in DOMAIN fields THEN fields[f] ELSE ts[id][f]]]
    ELSE ts

DeleteRow(ts, id) == [j \in (DOMAIN ts) \ {id} |-> ts[j]]

InsertRow(ts, id, row) == [j \in (DOMAIN ts) \cup {id} |-> IF j = id THEN row ELSE ts[j]]

\* the first path of the task that exists, trying the extensions in order;
\* <<>> when none does
RECURSIVE FirstExisting(_, _, _)
FirstExisting(fs, id, i) ==
    IF i > Len(extensions) THEN <<>>
    ELSE IF Exists(fs, TaskPath(id, extensions[i])) THEN TaskPath(id, extensions[i])
    ELSE FirstExisting(fs, id, i + 1)

findTaskFile(fs, id) == FirstExisting(fs, id, 1)

\* "Clean up file if it exists (try with common extensions)": unlink the
\* first hit and break
CleanupFile(fs, id) ==
    IF findTaskFile(fs, id) = <<>> THEN fs ELSE Unlink(fs, findTaskFile(fs, id))

\* getAudioDuration(filePath): ffprobe on the file now at the path; 0 when
\* ffprobe fails
getAudioDuration(fs, p) == IF Exists(fs, p) THEN fs[p].duration ELSE 0

\* GET /api/tasks: the ids of all rows, newest first
RECURSIVE SortDesc(_, _)
SortDesc(ts, S) ==
    IF S = {} THEN <<>>
    ELSE LET newest == CHOOSE i \in S :
                 \A j \in S : \/ ts[i].createdAt > ts[j].createdAt
                              \/ ts[i].createdAt = ts[j].createdAt /\ i >= j
         IN <<newest>> \o SortDesc(ts, S \ {newest})

List(ts) == SortDesc(ts, DOMAIN ts)

InList(ts, id) == \E k \in 1..Len(List(ts)) : List(ts)[k] = id

\* ------------------------------------------------------------------ Init
NoResp == [id |-> -1, file_name |-> "", file_size |-> 0, status |-> ""]
NullTask == [id |-> 0, file_name |-> "", file_size |-> 0, status |-> ""]
IdleWorker ==
    [pc |-> "idle", task |-> 0, resp |-> NoResp, skipped |-> 0,
     outcome |-> "", message |-> ""]
IdleCreate == [pc |-> "idle", file |-> NoUpload, temp |-> 0, taskId |-> 0,
               resp |-> 0, error |-> ""]
IdleDelete == [pc |-> "idle", taskId |-> 0, status |-> "", resp |-> 0]
IdleLegacy == [pc |-> "idle", taskId |-> 0]
IdleClient ==
    [pc |-> "idle", lib |-> GeminiLib, entry |-> "transcribeAudio", size |-> 0,
     path |-> "", tmp |-> FALSE,
     label |-> "", attempts |-> 0, baseDelayMs |-> 0, i |-> 0, calls |-> 0,
     history |-> <<>>, sleeps |-> <<>>,
     ret |-> "", value |-> "", err |-> NoError,
     uploadedFile |-> FALSE, handle |-> "none", polls |-> 0, state |-> "",
     releases |-> 0, failed |-> NoError]

\* no request yet; status 0 is a request whose response is not yet written
NoReply ==
    [caller |-> "", endpoint |-> "", authHeader |-> "", session |-> NoSession,
     id |-> 0, status |-> 0, body |-> "", file |-> <<>>,
     query |-> NoQuery, rows |-> <<>>]

Init ==
    /\ tasks = Empty
    /\ files = Empty
    /\ now = 0
    /\ nextId = 0
    /\ locks = Empty
    /\ worker = [w \in Workers |-> IdleWorker]
    /\ claimCount = Empty
    /\ create = [r \in CreateReqs |-> IdleCreate]
    /\ delete = [d \in DeleteReqs |-> IdleDelete]
    /\ legacy = [l \in LegacyReqs |-> IdleLegacy]
    /\ client = IdleClient
    /\ reply = NoReply

Tick ==
    /\ now < MaxTime
    /\ now' = now + 1
    /\ UNCHANGED <<reply, client, tasks, files, nextId, locks, worker, claimCount,
                   create, delete, legacy>>

\* ------------------------------------------------- POST /api/tasks (Create)
NewRow(file, t) ==
    [fileName |-> file.ext, fileSize |-> file.size, status |-> "pending",
     progress |-> 0, result |-> Null, error |-> Null,
     createdAt |-> t, updatedAt |-> t]

\* the synchronous checks on the form data, up to the first await after the
\* temp name is taken from Date.now()
POSTBegin(r, file) ==
    /\ create[r].pc = "idle"
    /\ IF file = NoUpload
       THEN create' = [create EXCEPT ![r] =
                [IdleCreate EXCEPT !.resp = 400, !.error = "No audio file provided"]]
       ELSE IF ~isSupportedFormat(file.ext)
       THEN create' = [create EXCEPT ![r] =
                [IdleCreate EXCEPT !.resp = 400, !.error = "Unsupported file format"]]
       ELSE IF file.size > maxSize
       THEN create' = [create EXCEPT ![r] =
                [IdleCreate EXCEPT !.resp = 400, !.error = "File too large"]]
       ELSE create' = [create EXCEPT ![r] =
                [pc |-> "write", file |-> file, temp |-> now, taskId |-> 0,
                 resp |-> 0, error |-> ""]]
    /\ UNCHANGED <<reply, client, tasks, files, now, nextId, locks, worker, claimCount,
                   delete, legacy>>

\* fs.promises.writeFile(tempFilePath, buffer)
POSTWriteTemp(r) ==
    /\ create[r].pc = "write"
    /\ files' = WriteFile(files, TempPath(create[r].temp, extname(create[r].file.ext)),
                          create[r].file)
    /\ create' = [create EXCEPT ![r].pc = "probe"]
    /\ UNCHANGED <<reply, client, tasks, now, nextId, locks, worker, claimCount, delete, legacy>>

RemoveTempKeep(fs, p) == fs

\* "Clean up temp file": fs.unlinkSync(tempFilePath)
RemoveTemp(fs, p) == Unlink(fs, p)

\* getAudioDuration and the duration check, with the unlink of the temp file
POSTProbe(r) ==
    LET p == TempPath(create[r].temp, extname(create[r].file.ext)) IN
    /\ create[r].pc = "probe"
    /\ IF getAudioDuration(files, p) > MAX_DURATION_SECONDS
       THEN /\ files' = RemoveTemp(files, p)
            /\ create' = [create EXCEPT ![r] =
                    [IdleCreate EXCEPT !.resp = 400, !.error = "Audio file is too long"]]
       ELSE /\ files' = files
            /\ create' = [create EXCEPT ![r].pc = "insert"]
    /\ UNCHANGED <<reply, client, tasks, now, nextId, locks, worker, claimCount, delete, legacy>>

\* db.insert(tasks).values({...}).returning()
POSTInsert(r) ==
    /\ create[r].pc = "insert"
    /\ nextId' = nextId + 1
    /\ tasks' = InsertRow(tasks, nextId + 1, NewRow(create[r].file, now))
    /\ claimCount' = InsertRow(claimCount, nextId + 1, 0)
    /\ create' = [create EXCEPT ![r].pc = "rename", ![r].taskId = nextId + 1]
    /\ UNCHANGED <<reply, client, files, now, locks, worker, delete, legacy>>

\* fs.renameSync(tempFilePath, filePath); a throw enters the catch block,
\* whose cleanup loop runs before its first await
POSTRename(r) ==
    LET from == TempPath(create[r].temp, extname(create[r].file.ext))
        to == TaskPath(create[r].taskId, extname(create[r].file.ext)) IN
    /\ create[r].pc = "rename"
    /\ \E fsOk \in BOOLEAN :
         IF fsOk /\ Exists(files, from)
         THEN /\ files' = Rename(files, from, to)
              /\ create' = [create EXCEPT ![r] =
                    [IdleCreate EXCEPT !.resp = 200]]
         ELSE /\ files' = CleanupFile(files, create[r].taskId)
              /\ create' = [create EXCEPT ![r].pc = "markfailed"]
    /\ UNCHANGED <<reply, client, tasks, now, nextId, locks, worker, claimCount, delete, legacy>>

MarkFailedFieldsNoStatus(t) == [error |-> "rename failed", updatedAt |-> t]

\* the fields the catch block sets, error being the message of the throw
MarkFailedFields(t) ==
    [status |-> "failed", error |-> "rename failed", updatedAt |-> t]

\* catch block: db.update(tasks).set({status: "failed", error, updatedAt})
POSTMarkFailed(r) ==
    /\ create[r].pc = "markfailed"
    /\ create[r].taskId \notin DOMAIN locks
    /\ tasks' = Update(tasks, create[r].taskId, MarkFailedFields(now))
    /\ create' = [create EXCEPT ![r] =
            [IdleCreate EXCEPT !.resp = 500, !.error = "Failed to create task"]]
    /\ UNCHANGED <<reply, client, files, now, nextId, locks, worker, claimCount, delete, legacy>>

\* ------------------------------------------ GET /api/worker/tasks (claim)
SelectableNone(ts, lk) == {}

SelectableCancelled(ts, lk) ==
    {i \in DOMAIN ts : ts[i].status \in {"pending", "cancelled"} /\ i \notin DOMAIN lk}

SelectableNoSkip(ts, lk) == {i \in DOMAIN ts : ts[i].status = "pending"}

\* WHERE status = 'pending' ... FOR UPDATE SKIP LOCKED: the pending rows no
\* other in-flight statement has locked
Selectable(ts, lk) ==
    {i \in DOMAIN ts : ts[i].status = "pending" /\ i \notin DOMAIN lk}

\* the pending rows SKIP LOCKED passes over
SkippedRows(ts, lk) ==
    {i \in DOMAIN ts : ts[i].status = "pending" /\ i \in DOMAIN lk}

IsAnyRow(ts, S, id) == id \in S

\* ORDER BY created_at ASC LIMIT 1
IsFirstByCreatedAt(ts, S, id) ==
    id \in S /\ \A j \in S : ts[id].createdAt <= ts[j].createdAt

\* the subquery: lock the oldest selectable row, or find none
GETSelect(w) ==
    /\ worker[w].pc = "idle"
    /\ IF Selectable(tasks, locks) = {}
       THEN /\ worker' = [worker EXCEPT ![w] =
                    [IdleWorker EXCEPT !.resp = NullTask,
                                       !.skipped = Cardinality(SkippedRows(tasks, locks))]]
            /\ locks' = locks
       ELSE \E id \in DOMAIN tasks :
            /\ IsFirstByCreatedAt(tasks, Selectable(tasks, locks), id)
            /\ locks' = [j \in (DOMAIN locks) \cup {id} |-> IF j = id THEN w ELSE locks[j]]
            /\ worker' = [worker EXCEPT ![w] =
                    [IdleWorker EXCEPT !.pc = "locked", !.task = id]]
    /\ UNCHANGED <<reply, client, tasks, files, now, nextId, claimCount, create, delete, legacy>>

ClaimFieldsAhead(t) == [status |-> "processing", progress |-> 30, updatedAt |-> t]

ClaimFieldsNoProgress(t) == [status |-> "processing", updatedAt |-> t]

\* SET status = 'processing', progress = 10, updated_at = NOW()
ClaimFields(t) == [status |-> "processing", progress |-> 10, updatedAt |-> t]

\* the UPDATE ... RETURNING id, file_name, file_size, status and the commit
GETCommit(w) ==
    LET id == worker[w].task IN
    /\ worker[w].pc = "locked"
    /\ tasks' = Update(tasks, id, ClaimFields(now))
    /\ locks' = [j \in (DOMAIN locks) \ {id} |-> locks[j]]
    /\ claimCount' = [claimCount EXCEPT ![id] = @ + 1]
    /\ worker' = [worker EXCEPT ![w] =
            [IdleWorker EXCEPT
                !.pc = "claimed", !.task = id,
                !.resp = [id |-> id, file_name |-> tasks'[id].fileName,
                          file_size |-> tasks'[id].fileSize,
                          status |-> tasks'[id].status]]]
    /\ UNCHANGED <<reply, client, files, now, nextId, create, delete, legacy>>

\* ---------------------------------------------- queue worker processor
\* job.data.filePath of the job made for a claimed task
JobFilePath(w) == TaskPath(worker[w].task, extname(worker[w].resp.file_name))

\* "Mark task as processing"
JobStart(w) ==
    /\ worker[w].pc = "claimed"
    /\ worker[w].task \notin DOMAIN locks
    /\ tasks' = Update(tasks, worker[w].task,
                       [status |-> "processing", progress |-> 20, updatedAt |-> now])
    /\ worker' = [worker EXCEPT ![w].pc = "job_read"]
    /\ UNCHANGED <<reply, client, files, now, nextId, locks, claimCount, create, delete, legacy>>

\* fs.promises.readFile(filePath), outside the try block: a throw (no such
\* file, or the read fails) ends the job with no further write and no unlink
JobRead(w) ==
    /\ worker[w].pc = "job_read"
    /\ \E fsOk \in BOOLEAN :
         IF fsOk /\ Exists(files, JobFilePath(w))
         THEN worker' = [worker EXCEPT ![w].pc = "job_call"]
         ELSE worker' = [worker EXCEPT ![w] = IdleWorker]
    /\ UNCHANGED <<reply, client, tasks, files, now, nextId, locks, claimCount, create, delete, legacy>>

CompletedFieldsKeepError(t) ==
    [status |-> "completed", progress |-> 100, result |-> Transcript,
     updatedAt |-> t]

CompletedFieldsNoResult(t) ==
    [status |-> "completed", progress |-> 100, error |-> Null, updatedAt |-> t]

\* the completed write of the worker and of the legacy route
CompletedFields(t) ==
    [status |-> "completed", progress |-> 100, result |-> Transcript,
     error |-> Null, updatedAt |-> t]

FailedFieldsKeepProgress(t, message) ==
    [status |-> "failed", error |-> message, updatedAt |-> t]

\* the failed write of the worker's catch block, error being error.message
FailedFields(t, message) ==
    [status |-> "failed", progress |-> 0, error |-> message, updatedAt |-> t]

\* error.message of what transcribeAudio throws in a job: a retryable error
\* on the last attempt, the timeout of the staged path
JobErrors == {ConnReset.message, TimedOut.message}

\* transcribeAudio returns the transcript or throws
JobOutcomes ==
    {[ret |-> "value", message |-> ""]}
    \cup {[ret |-> "throw", message |-> m] : m \in JobErrors}

\* the terminal write of the try block or of the catch block
JobFields(out, t) ==
    IF out.ret = "value" THEN CompletedFields(t) ELSE FailedFields(t, out.message)

\* transcribeAudio returns or throws; the matching terminal write, after
\* which the catch block rethrows
JobDone(w) ==
    /\ worker[w].pc = "job_call"
    /\ worker[w].task \notin DOMAIN locks
    /\ \E out \in JobOutcomes :
         /\ tasks' = Update(tasks, worker[w].task, JobFields(out, now))
         /\ worker' = [worker EXCEPT ![w].pc = "job_cleanup",
                                     ![w].outcome = out.ret,
                                     ![w].message = out.message]
    /\ UNCHANGED <<reply, client, files, now, nextId, locks, claimCount, create, delete, legacy>>

\* finally: fs.promises.unlink(filePath), errors logged and swallowed
JobCleanup(w) ==
    /\ worker[w].pc = "job_cleanup"
    /\ files' = Unlink(files, JobFilePath(w))
    /\ worker' = [worker EXCEPT ![w] = IdleWorker]
    /\ UNCHANGED <<reply, client, tasks, now, nextId, locks, claimCount, create, delete, legacy>>

\* the worker process stops between the claim and the terminal write of its
\* job; nothing of it runs afterwards
Crash(w) ==
    /\ worker[w].pc \in {"claimed", "job_read", "job_call"}
    /\ worker' = [worker EXCEPT ![w].pc = "crashed"]
    /\ UNCHANGED <<reply, client, tasks, files, now, nextId, locks, claimCount, create, delete, legacy>>

\* ------------------------------------------- PATCH /api/worker/tasks
updateDataBodyOnly(body, t) == body

updateDataAndCreatedAt(body, t) ==
    [f \in (DOMAIN body) \cup {"updatedAt", "createdAt"} |->
        IF f \in {"updatedAt", "createdAt"} THEN t ELSE body[f]]

\* updateData: updatedAt plus the body fields that are not undefined
updateData(body, t) ==
    [f \in (DOMAIN body) \cup {"updatedAt"} |->
        IF f = "updatedAt" THEN t ELSE body[f]]

PATCH(w, body) ==
    /\ worker[w].pc \in {"claimed", "polling"}
    /\ worker[w].task \notin DOMAIN locks
    /\ tasks' = Update(tasks, worker[w].task, updateData(body, now))
    /\ worker' = [worker EXCEPT ![w] =
            IF "status" \in DOMAIN body /\ body.status \in Terminal
            THEN IdleWorker ELSE [worker[w] EXCEPT !.pc = "polling"]]
    /\ UNCHANGED <<reply, client, files, now, nextId, locks, claimCount, create, delete, legacy>>

\* the bodies the out-of-process worker sends
UploadingBody == [status |-> "uploading"]
CompletedBody ==
    [status |-> "completed", progress |-> 100, result |-> Transcript, error |-> Null]
FailedBody == [status |-> "failed", progress |-> 0, error |-> TranscribeError]

\* DELETE /api/worker/tasks/[id]/file
FileDELETE(w) ==
    /\ worker[w].pc = "polling"
    /\ findTaskFile(files, worker[w].task) # <<>>
    /\ files' = Unlink(files, findTaskFile(files, worker[w].task))
    /\ UNCHANGED <<reply, client, tasks, now, nextId, locks, worker, claimCount, create, delete, legacy>>

\* ------------------------------------------------ DELETE /api/tasks?id=
\* "Get the task to check its status"
DELETERead(d, id) ==
    /\ delete[d].pc = "idle"
    /\ IF id \in DOMAIN tasks
       THEN delete' = [delete EXCEPT ![d] =
                [pc |-> "write", taskId |-> id, status |-> tasks[id].status,
                 resp |-> 0]]
       ELSE delete' = [delete EXCEPT ![d] = [IdleDelete EXCEPT !.resp = 404]]
    /\ UNCHANGED <<reply, client, tasks, files, now, nextId, locks, worker, claimCount, create, legacy>>

IsProcessing(status) == status = "processing"

\* currentTask.status === "processing" || currentTask.status === "pending"
IsActive(status) == status = "processing" \/ status = "pending"

\* the update to cancelled or the delete of the row
DELETEWrite(d) ==
    /\ delete[d].pc = "write"
    /\ delete[d].taskId \notin DOMAIN locks
    /\ IF IsActive(delete[d].status)
       THEN tasks' = Update(tasks, delete[d].taskId,
                            [status |-> "cancelled", updatedAt |-> now])
       ELSE tasks' = DeleteRow(tasks, delete[d].taskId)
    /\ delete' = [delete EXCEPT ![d].pc = "cleanup"]
    /\ UNCHANGED <<reply, client, files, now, nextId, locks, worker, claimCount, create, legacy>>

\* "Clean up file if it exists" and the success response
DELETECleanup(d) ==
    /\ delete[d].pc = "cleanup"
    /\ files' = CleanupFile(files, delete[d].taskId)
    /\ delete' = [delete EXCEPT ![d].pc = "idle", ![d].resp = 200]
    /\ UNCHANGED <<reply, client, tasks, now, nextId, locks, worker, claimCount, create, legacy>>

\* ------------------------------------------------- POST /api/transcribe
\* validation of the form data and the first write
TranscribeBegin(l, id, file) ==
    /\ legacy[l].pc = "idle"
    /\ id = 0 \/ id \notin DOMAIN locks
    /\ IF file = NoUpload \/ id = 0
       THEN /\ tasks' = tasks
            /\ legacy' = [legacy EXCEPT ![l] = IdleLegacy]
       ELSE IF ~isSupportedFormat(file.ext)
       THEN /\ tasks' = Update(tasks, id,
                    [status |-> "failed", error |-> "Unsupported file format",
                     updatedAt |-> now])
            /\ legacy' = [legacy EXCEPT ![l] = IdleLegacy]
       ELSE IF file.size > maxSize
       THEN /\ tasks' = Update(tasks, id,
                    [status |-> "failed", error |-> "File too large",
                     updatedAt |-> now])
            /\ legacy' = [legacy EXCEPT ![l] = IdleLegacy]
       ELSE /\ tasks' = Update(tasks, id,
                    [status |-> "processing", progress |-> 10, updatedAt |-> now])
            /\ legacy' = [legacy EXCEPT ![l] =
                    [pc |-> "buffer", taskId |-> id]]
    /\ UNCHANGED <<reply, client, files, now, nextId, locks, worker, claimCount, create, delete>>

\* "Update progress"
TranscribeProgress(l) ==
    /\ legacy[l].pc = "buffer"
    /\ legacy[l].taskId \notin DOMAIN locks
    /\ tasks' = Update(tasks, legacy[l].taskId, [progress |-> 30, updatedAt |-> now])
    /\ legacy' = [legacy EXCEPT ![l].pc = "call"]
    /\ UNCHANGED <<reply, client, files, now, nextId, locks, worker, claimCount, create, delete>>

\* transcribeAudio returns or throws: the completed write, or the failed
\* write of the catch block
TranscribeDone(l) ==
    /\ legacy[l].pc = "call"
    /\ legacy[l].taskId \notin DOMAIN locks
    /\ \E ok \in BOOLEAN :
         /\ tasks' = Update(tasks, legacy[l].taskId,
                IF ok THEN CompletedFields(now)
                ELSE [status |-> "failed", error |-> TranscribeError,
                      updatedAt |-> now])
         /\ legacy' = [legacy EXCEPT ![l] = IdleLegacy]
    /\ UNCHANGED <<reply, client, files, now, nextId, locks, worker, claimCount, create, delete>>

\* ------------------------------------------------ worker endpoint auth
validateWorkerAuthAlways(key, authHeader) == TRUE

\* validateWorkerAuth(req): open when no key is configured, else the header
\* must be exactly "Bearer <key>"
validateWorkerAuth(key, authHeader) ==
    IF key = "" THEN TRUE ELSE authHeader = Bearer(key)

\* a request reaches a worker endpoint: the first statement of each handler
\* answers 401 unless validateWorkerAuth passes
Arrive(w, endpoint, authHeader, id) ==
    /\ reply' = [NoReply EXCEPT
            !.caller = w, !.endpoint = endpoint, !.authHeader = authHeader,
            !.id = id,
            !.status = IF validateWorkerAuth(WORKER_API_KEY, authHeader)
                       THEN 0 ELSE 401,
            !.body = IF validateWorkerAuth(WORKER_API_KEY, authHeader)
                     THEN "" ELSE Unauthorized]
    /\ UNCHANGED <<client, tasks, files, now, nextId, locks, worker, claimCount,
                   create, delete, legacy>>

\* the request of w to the endpoint is past the 401 return of its handler
Admitted(w, endpoint) ==
    reply.caller = w /\ reply.endpoint = endpoint /\ reply.status = 0

\* GET /api/worker/tasks/[id]: the status of the task, or 404
StatusGET(w) ==
    /\ Admitted(w, "GET /api/worker/tasks/[id]")
    /\ reply' = IF reply.id \in DOMAIN tasks
                THEN [reply EXCEPT !.status = 200, !.body = tasks[reply.id].status]
                ELSE [reply EXCEPT !.status = 404, !.body = TaskNotFound]
    /\ UNCHANGED <<client, tasks, files, now, nextId, locks, worker, claimCount,
                   create, delete, legacy>>

\* GET /api/worker/tasks/[id]/file: the payload found by findTaskFile, or 404
FileGET(w) ==
    /\ Admitted(w, "GET /api/worker/tasks/[id]/file")
    /\ reply' = IF findTaskFile(files, reply.id) = <<>>
                THEN [reply EXCEPT !.status = 404, !.body = FileNotFound]
                ELSE [reply EXCEPT !.status = 200,
                                   !.file = findTaskFile(files, reply.id)]
    /\ UNCHANGED <<client, tasks, files, now, nextId, locks, worker, claimCount,
                   create, delete, legacy>>

\* ------------------------------------------ GET /api/tasks/[id]/download
\* the user_id column of a row: POST /api/tasks inserts none
userId(row) == Null

\* the select: by id for an administrator, by id and owner for a user
DownloadSelect(ts, session, id) ==
    {i \in DOMAIN ts :
        i = id /\ (session.isAdmin \/ userId(ts[i]) = session.user)}

\* !task.result
Falsy(v) == v \in {Null, ""}

DownloadableAnyResult(task) == ~Falsy(task.result)

\* the negation of task.status !== "completed" || !task.result
Downloadable(task) == task.status = "completed" /\ ~Falsy(task.result)

\* JSON.stringify of a structured result
JSONstringify(v) == "{json: " \o v \o "}"

\* the results a row yields that are not strings: none, the result column
\* being text
StructuredResults == {}

\* typeof result === "string" ? result : JSON.stringify(result)
textContent(result) ==
    IF result \in StructuredResults THEN JSONstringify(result) ELSE result

Download(session, id) ==
    LET found == DownloadSelect(tasks, session, id)
        answer(status, body) ==
            [NoReply EXCEPT !.caller = session.user, !.endpoint = DownloadEndpoint,
                            !.session = session, !.id = id,
                            !.status = status, !.body = body]
    IN
    /\ reply' =
            IF session.user = Null THEN answer(401, Unauthorized)
            ELSE IF session.status # "APPROVED" THEN answer(403, NotApproved)
            ELSE IF found = {} THEN answer(404, TaskNotFound)
            ELSE IF ~Downloadable(tasks[id]) THEN answer(400, NotCompleted)
            ELSE answer(200, textContent(tasks[id].result))
    /\ UNCHANGED <<client, tasks, files, now, nextId, locks, worker, claimCount,
                   create, delete, legacy>>

\* ------------------------------------ GET of the internal cross-service API
\* !authToken || authToken !== process.env.INTERNAL_API_TOKEN
TokenRejected(authToken) ==
    authToken \in {Null, ""} \/ authToken # INTERNAL_API_TOKEN

\* status.split(","): the pieces between the commas
split(status) ==
    CASE status = "failed" -> <<"failed">>
      [] status = "completed, failed" -> <<"completed", " failed">>

\* String.prototype.trim
trim(piece) == IF piece = " failed" THEN "failed" ELSE piece

\* status.split(",").map(s => s.trim())
statusValues(status) == [k \in 1..Len(split(status)) |-> trim(split(status)[k])]

\* parseInt(searchParams.get("limit") || "50", 10)
parseLimit(limit) == IF limit = Null THEN 50 ELSE 1

\* let targetUserId = userId; the users lookup when only the email is given
targetUserId(q) ==
    IF q.email # Null /\ q.userId = Null
    THEN IF q.email \in Emails THEN UserIdOf(q.email) ELSE Null
    ELSE q.userId

StatusMatchesAny(row, values) == \E k \in 1..Len(values) : row.status = values[k]

\* the status condition of the query: only a single value adds one
StatusMatches(row, values) ==
    IF Len(values) = 1 THEN row.status = values[1] ELSE TRUE

\* the where clauses of the query
InternalSelect(table, owner, status) ==
    {i \in DOMAIN table :
        /\ table[i].userId = owner
        /\ status # Null => StatusMatches(table[i], statusValues(status))}

\* orderBy(desc(tasks.createdAt)).limit(limit) and the transform
InternalRows(table, S, limit) ==
    LET sorted == SortDesc(table, S)
        n == IF Len(sorted) < limit THEN Len(sorted) ELSE limit
    IN [k \in 1..n |->
            [id |-> sorted[k], status |-> table[sorted[k]].status,
             userId |-> table[sorted[k]].userId]]

InternalGET(authToken, q) ==
    LET answer(status, body, rows) ==
            [NoReply EXCEPT !.caller = "service", !.endpoint = InternalEndpoint,
                            !.authHeader = authToken, !.query = q,
                            !.status = status, !.body = body, !.rows = rows]
        owner == targetUserId(q)
    IN
    /\ reply' =
            IF TokenRejected(authToken) THEN answer(401, Unauthorized, <<>>)
            ELSE IF q.email = Null /\ q.userId = Null
            THEN answer(400, "{error: Either email or userId is required}", <<>>)
            ELSE IF owner = Null THEN answer(200, "", <<>>)
            ELSE answer(200, "",
                        InternalRows(q.table,
                                     InternalSelect(q.table, owner, q.status),
                                     parseLimit(q.limit)))
    /\ UNCHANGED <<client, tasks, files, now, nextId, locks, worker, claimCount,
                   create, delete, legacy>>

\* --------------------------------------------------- Transcription Client
server == <<tasks, files, now, nextId, locks, worker, claimCount,
            create, delete, legacy, reply>>

\* the parts message.includes() is asked about, per message
Parts(message) ==
    CASE message = "read ECONNRESET" -> {"ECONNRESET"}
      [] message = "fetch failed" -> {"fetch failed"}
      [] message = "connect ETIMEDOUT" -> {"ETIMEDOUT"}
      [] OTHER -> {}

includes(message, part) == part \in Parts(message)

\* const retryable of src/lib/gemini.ts: two transport codes
retryableByCode(err) ==
    err.code = "UND_ERR_HEADERS_TIMEOUT" \/ err.code = "ECONNRESET"

\* const retryable of the copy in src/auth.config.ts: codes, message parts
\* and 5xx status
retryableByStatus(err) ==
    \/ err.code = "UND_ERR_HEADERS_TIMEOUT"
    \/ err.code = "ECONNRESET"
    \/ includes(err.message, "fetch failed")
    \/ includes(err.message, "ECONNREFUSED")
    \/ includes(err.message, "ETIMEDOUT")
    \/ includes(err.message, "ERR_HTTP")
    \/ (err.status >= 500 /\ err.status < 600)

retryable(lib, err) ==
    IF lib = GeminiLib THEN retryableByCode(err) ELSE retryableByStatus(err)

LastAttemptEarly(i, attempts) == i = attempts - 2

\* i === attempts - 1
LastAttempt(i, attempts) == i = attempts - 1

ShouldThrowOnLast(lib, err, i, attempts) == LastAttempt(i, attempts)

\* if (!retryable || i === attempts - 1) throw err
ShouldThrow(lib, err, i, attempts) ==
    ~retryable(lib, err) \/ LastAttempt(i, attempts)

\* baseDelayMs * Math.pow(2, i)
delay(baseDelayMs, i) == baseDelayMs * 2^i

NextIndexSkip(i) == i + 2

\* i++
NextIndex(i) == i + 1

\* the attempts and baseDelayMs uploadToGemini passes to retryWithBackoff
uploadAttempts(lib) == IF lib = GeminiLib THEN DefaultAttempts ELSE 5
uploadBaseDelayMs(lib) == IF lib = GeminiLib THEN DefaultBaseDelayMs ELSE 3000

UploadLabel == "Gemini upload"

GenerationLabel(entry, path) ==
    IF entry = "transcribeAudio"
    THEN IF path = "inline" THEN "Gemini inline transcription"
         ELSE "Gemini file transcription"
    ELSE IF path = "inline" THEN "Gemini simple inline transcript"
         ELSE "Gemini simple file transcript"

GenerationLabels ==
    {GenerationLabel(e, p) : e \in Entries, p \in {"inline", "staged"}}

\* what one invocation of the wrapped provider call does
Outcomes(label) ==
    {[ok |-> TRUE, body |-> b, err |-> NoError] :
        b \in IF label = UploadLabel THEN {FileName} ELSE Bodies}
    \cup {[ok |-> FALSE, body |-> "", err |-> e] : e \in ProviderErrors}

\* entry of retryWithBackoff: lastError undefined, i = 0
retryWithBackoff(c, label, attempts, baseDelayMs) ==
    [c EXCEPT !.pc = "retry_call", !.label = label, !.attempts = attempts,
              !.baseDelayMs = baseDelayMs, !.i = 0, !.calls = 0,
              !.history = <<>>, !.sleeps = <<>>,
              !.ret = "", !.value = "", !.err = NoError, !.failed = NoError]

\* the frame of retryWithBackoff and of waitForFileReady is gone
Forget(c) ==
    [c EXCEPT !.label = "", !.attempts = 0, !.baseDelayMs = 0, !.i = 0,
              !.calls = 0, !.history = <<>>, !.sleeps = <<>>, !.state = "",
              !.failed = NoError]

UsesFilesAPIAtThreshold(size) == size >= 15 * MB

\* fileSizeMB > 15, with fileSizeMB = buffer.length / (1024 * 1024)
UsesFilesAPI(size) == size > 15 * MB

AfterTryNoFinally(entry, uploadedFile, ret) ==
    IF ret = "value" THEN "release" ELSE "cleanup_temp"

\* where the staged path goes when its try block is left: the finally of
\* transcribeWithFilesAPI releases when uploadedFile is set;
\* transcribeAudioSimple releases only on the line before its return
AfterTry(entry, uploadedFile, ret) ==
    IF entry = "transcribeAudio"
    THEN IF uploadedFile THEN "release" ELSE "cleanup_temp"
    ELSE IF ret = "value" THEN "release" ELSE "cleanup_temp"

\* the call returns v or throws err, through the cleanup of its path
Exit(c, ret, v, err) ==
    [Forget(c) EXCEPT !.ret = ret, !.value = v, !.err = err,
                      !.pc = IF c.path = "inline" THEN "done"
                             ELSE AfterTry(c.entry, c.uploadedFile, ret)]

\* transcribeAudio / transcribeAudioSimple up to the first await
ClientBegin(lib, entry, size) ==
    /\ client.pc = "idle"
    /\ client' =
         IF UsesFilesAPI(size)
         THEN [IdleClient EXCEPT !.pc = "save", !.lib = lib, !.entry = entry,
                                 !.size = size, !.path = "staged"]
         ELSE retryWithBackoff(
                [IdleClient EXCEPT !.lib = lib, !.entry = entry, !.size = size,
                                   !.path = "inline"],
                GenerationLabel(entry, "inline"),
                DefaultAttempts, DefaultBaseDelayMs)
    /\ UNCHANGED server

\* saveToTempFile, then uploadToGemini enters retryWithBackoff
SaveTemp ==
    /\ client.pc = "save"
    /\ client' = retryWithBackoff([client EXCEPT !.tmp = TRUE], UploadLabel,
                                  uploadAttempts(client.lib),
                                  uploadBaseDelayMs(client.lib))
    /\ UNCHANGED server

\* one iteration of the loop of retryWithBackoff: await fn() and the catch
\* block up to its throw or its sleep
RetryCall ==
    /\ client.pc = "retry_call"
    /\ \E out \in Outcomes(client.label) :
         LET c == [client EXCEPT !.calls = @ + 1, !.history = Append(@, out),
                                 !.failed = out.err]
         IN client' =
              IF out.ok
              THEN [c EXCEPT !.pc = "retry_return", !.ret = "value",
                             !.value = out.body]
              ELSE IF ShouldThrow(c.lib, out.err, c.i, c.attempts)
              THEN [c EXCEPT !.pc = "retry_return", !.ret = "throw",
                             !.err = out.err]
              ELSE [c EXCEPT !.pc = "retry_sleep", !.err = out.err,
                             !.sleeps = Append(@, delay(c.baseDelayMs, c.i))]
    /\ UNCHANGED server

\* the backoff sleep is over: i++ and the loop test; "throw lastError" after
\* the loop
RetrySleep ==
    /\ client.pc = "retry_sleep"
    /\ client' =
         IF NextIndex(client.i) < client.attempts
         THEN [client EXCEPT !.pc = "retry_call", !.i = NextIndex(@),
                             !.failed = NoError]
         ELSE [client EXCEPT !.pc = "retry_return", !.i = NextIndex(@),
                             !.ret = "throw", !.failed = NoError]
    /\ UNCHANGED server

\* uploadToGemini returns the handle or throws
UploadReturn ==
    /\ client.pc = "retry_return"
    /\ client.label = UploadLabel
    /\ client' =
         IF client.ret = "value"
         THEN [Forget(client) EXCEPT !.pc = "poll", !.uploadedFile = TRUE,
                                     !.handle = "live", !.polls = 0,
                                     !.ret = "", !.value = ""]
         ELSE Exit(client, "throw", "", client.err)
    /\ UNCHANGED server

LoopContinuesPast(attempts, max) == attempts <= max

\* attempts < maxAttempts
LoopContinues(attempts, max) == attempts < max

\* one iteration of waitForFileReady: ai.files.get, the state checks and the
\* 5 s sleep
waitForFileReady ==
    /\ client.pc = "poll"
    /\ \/ \E e \in ProviderErrors :
            client' = [Exit([client EXCEPT !.polls = @ + 1], "throw", "", e)
                          EXCEPT !.failed = e]
       \/ \E st \in FileStates :
            LET c == [client EXCEPT !.polls = @ + 1, !.state = st,
                                    !.failed = NoError]
            IN client' =
                 IF st = "ACTIVE"
                 THEN retryWithBackoff([c EXCEPT !.polls = 0, !.state = ""],
                        GenerationLabel(c.entry, "staged"),
                        DefaultAttempts, DefaultBaseDelayMs)
                 ELSE IF st # "PROCESSING"
                 THEN [Exit(c, "throw", "", ProcessingFailed) EXCEPT !.state = st]
                 ELSE IF LoopContinues(c.polls, maxAttempts)
                 THEN c
                 ELSE [Exit(c, "throw", "", TimedOut) EXCEPT !.state = st]
    /\ UNCHANGED server

\* what follows the generation call: JSON.parse(response.text!) in
\* src/lib/gemini.ts, the empty check in the copy, response.text! as it is
\* in transcribeAudioSimple
Parsed(lib, entry, body) ==
    IF entry = "transcribeAudioSimple"
    THEN [ret |-> "value", value |-> body, err |-> NoError]
    ELSE IF lib = GeminiLib
    THEN IF body = JsonBody
         THEN [ret |-> "value", value |-> body, err |-> NoError]
         ELSE [ret |-> "throw", value |-> "", err |-> SyntaxError]
    ELSE IF body = EmptyBody
         THEN [ret |-> "throw", value |-> "", err |-> EmptyResponse]
         ELSE [ret |-> "value", value |-> body, err |-> NoError]

\* the generation call returns a response or throws
GenerateReturn ==
    /\ client.pc = "retry_return"
    /\ client.label \in GenerationLabels
    /\ client' =
         IF client.ret = "value"
         THEN LET r == Parsed(client.lib, client.entry, client.value)
              IN Exit(client, r.ret, r.value, r.err)
         ELSE Exit(client, "throw", "", client.err)
    /\ UNCHANGED server

\* deleteFromGemini(uploadedFile.name): ai.files.delete, an error is logged
\* and swallowed
Release ==
    /\ client.pc = "release"
    /\ \E e \in ProviderErrors \cup {NoError} :
         client' = [client EXCEPT !.pc = "cleanup_temp", !.releases = @ + 1,
                                  !.handle = IF e = NoError THEN "released" ELSE @,
                                  !.failed = e]
    /\ UNCHANGED server

\* finally: cleanupTempFile(tempPath)
CleanupTemp ==
    /\ client.pc = "cleanup_temp"
    /\ client' = [client EXCEPT !.pc = "done", !.tmp = FALSE, !.failed = NoError]
    /\ UNCHANGED server

\* the caller has the result
ClientReturn ==
    /\ client.pc = "done"
    /\ client' = IdleClient
    /\ UNCHANGED server

\* ------------------------------------------------------------------ Next
Client == "c1"

GoodUploads ==
    {f \in Uploads : f.size = maxSize /\ f.duration = MAX_DURATION_SECONDS}

\* one step of a Create request of client r, while fewer than cap ids are out
Create(r, cap) ==
    \/ \E file \in Uploads \cup {NoUpload} : nextId < cap /\ POSTBegin(r, file)
    \/ POSTWriteTemp(r)
    \/ POSTProbe(r)
    \/ nextId < cap /\ POSTInsert(r)
    \/ POSTRename(r)
    \/ POSTMarkFailed(r)

Claim(w) == GETSelect(w) \/ GETCommit(w)

Job(w) == JobStart(w) \/ JobRead(w) \/ JobDone(w) \/ JobCleanup(w)

Poll(w) ==
    \/ PATCH(w, UploadingBody)
    \/ PATCH(w, CompletedBody)
    \/ PATCH(w, FailedBody)
    \/ FileDELETE(w)

Delete(d) ==
    \/ \E id \in TaskIds : DELETERead(d, id)
    \/ DELETEWrite(d)
    \/ DELETECleanup(d)

Transcribe(l) ==
    \/ \E id \in DOMAIN tasks : \E file \in GoodUploads : TranscribeBegin(l, id, file)
    \/ TranscribeProgress(l)
    \/ TranscribeDone(l)

\* the whole system around the tasks of one client
Next ==
    \/ Tick
    \/ Create(Client, MaxTasks)
    \/ \E w \in Workers : Claim(w)
    \/ \E w \in Workers : Job(w)
    \/ \E w \in Workers : Poll(w)
    \/ \E d \in DeleteReqs : Delete(d)
    \/ \E l \in LegacyReqs : Transcribe(l)

Spec == Init /\ [][Next]_vars

\* the claim scheduler: one client's uploads, claimed and run by the workers
NextClaim ==
    \/ Tick
    \/ Create(Client, MaxPending)
    \/ \E w \in Workers : Claim(w)
    \/ \E w \in Workers : Job(w)

SpecClaim == Init /\ [][NextClaim]_vars

\* the queue workers and the Delete requests of the client
NextWorker ==
    \/ Tick
    \/ Create(Client, MaxTasks)
    \/ \E w \in Workers : Claim(w)
    \/ \E w \in Workers : Job(w)
    \/ \E d \in DeleteReqs : Delete(d)

SpecWorker == Init /\ [][NextWorker]_vars

\* concurrent Create requests
NextCreate ==
    \/ Tick
    \/ \E r \in CreateReqs : Create(r, MaxUploads)

SpecCreate == Init /\ [][NextCreate]_vars

\* the workers, one of which may stop in the middle of a job
NextCrash ==
    \/ Tick
    \/ Create(Client, MaxTasks)
    \/ \E w \in Workers : Claim(w)
    \/ \E w \in Workers : Job(w)
    \/ \E w \in Workers : Crash(w)
    \/ \E d \in DeleteReqs : Delete(d)

SpecCrash == Init /\ [][NextCrash]_vars

\* the queue workers when no process stops: a request or a job that has
\* begun keeps running; only new Delete requests of the client may stay away
SpecWorkerFair ==
    /\ Init /\ [][NextWorker]_vars
    /\ WF_vars(Create(Client, MaxTasks))
    /\ \A w \in Workers : WF_vars(Claim(w)) /\ WF_vars(Job(w))
    /\ \A d \in DeleteReqs : WF_vars(DELETEWrite(d) \/ DELETECleanup(d))

\* the claim scheduler with workers that keep polling and keep running
\* their jobs
SpecClaimFair ==
    /\ Init /\ [][NextClaim]_vars
    /\ \A w \in Workers : WF_vars(Claim(w)) /\ WF_vars(Job(w))

\* the tasks of one client and every component that processes them once:
\* the queue workers and the out-of-process workers
NextProgress ==
    \/ Tick
    \/ Create(Client, MaxTasks)
    \/ \E w \in Workers : Claim(w)
    \/ \E w \in Workers : Job(w)
    \/ \E w \in Workers : Poll(w)
    \/ \E d \in DeleteReqs : Delete(d)

SpecProgress == Init /\ [][NextProgress]_vars

\* the lookups of another service
NextInternal ==
    \E authToken \in Tokens : \E q \in Queries : InternalGET(authToken, q)

SpecInternal == Init /\ [][NextInternal]_vars

\* the worker endpoints, asked with and without the bearer token
NextAuth ==
    \/ Create(Client, MaxTasks)
    \/ \E w \in Workers : \E e \in WorkerEndpoints : \E h \in Headers :
            \E id \in TaskIds : Arrive(w, e, h, id)
    \/ \E w \in Workers : Admitted(w, "GET /api/worker/tasks") /\ GETSelect(w)
    \/ \E w \in Workers : GETCommit(w)
    \/ \E w \in Workers : \E body \in {UploadingBody, CompletedBody, FailedBody} :
            Admitted(w, "PATCH /api/worker/tasks") /\ PATCH(w, body)
    \/ \E w \in Workers :
            Admitted(w, "DELETE /api/worker/tasks/[id]/file") /\ FileDELETE(w)
    \/ \E w \in Workers : StatusGET(w)
    \/ \E w \in Workers : FileGET(w)

SpecAuth == Init /\ [][NextAuth]_vars

\* the workers, the Delete requests and the Download requests of the client
NextDownload ==
    \/ Tick
    \/ Create(Client, MaxTasks)
    \/ \E w \in Workers : Claim(w)
    \/ \E w \in Workers : Job(w)
    \/ \E d \in DeleteReqs : Delete(d)
    \/ \E session \in Sessions : \E id \in TaskIds : Download(session, id)

SpecDownload == Init /\ [][NextDownload]_vars

\* one call of the Transcription Client at a time
NextClient ==
    \/ \E lib \in Libs : \E entry \in Entries : \E size \in Sizes :
            ClientBegin(lib, entry, size)
    \/ SaveTemp
    \/ RetryCall
    \/ RetrySleep
    \/ UploadReturn
    \/ waitForFileReady
    \/ GenerateReturn
    \/ Release
    \/ CleanupTemp
    \/ ClientReturn

SpecClient == Init /\ [][NextClient]_vars

\* ------------------------------------------------------------ properties
Populated(v) == v # Null

PendingRows == {i \in DOMAIN tasks : tasks[i].status = "pending"}

TaskFiles(fs, id) == {p \in DOMAIN fs : p[1] = "task" /\ p[2] = id}

\* C1: no task id is returned by more than one claim call and no two workers
\* hold the same task; a claim call made while another in-flight claim holds
\* the only pending task returns {task: null}
C1_AtMostOneClaimant ==
    /\ [](/\ \A i \in DOMAIN claimCount : claimCount[i] <= 1
          /\ \A w1, w2 \in Workers :
                w1 # w2 /\ worker[w1].task # 0 => worker[w1].task # worker[w2].task)
    /\ [][\A w, v \in Workers :
            /\ w # v
            /\ worker[v].pc = "locked"
            /\ PendingRows = {worker[v].task}
            /\ worker[w].pc = "idle"
            /\ worker'[w] # worker[w]
            => worker'[w].pc = "idle" /\ worker'[w].resp = NullTask]_vars

\* two concurrent claim calls on one pending task: one holds it, the other
\* was answered {task: null}
C1_Witness ==
    \E w, v \in Workers :
        /\ worker[v].pc = "locked"
        /\ PendingRows = {worker[v].task}
        /\ worker[w].pc = "idle"
        /\ worker[w].resp = NullTask
        /\ worker[w].skipped = 1

\* C2: once a task is completed, failed or cancelled no step changes its
\* status; the row may only disappear
C2_TerminalAbsorbing ==
    [][\A i \in DOMAIN tasks :
            tasks[i].status \in Terminal
            => i \notin DOMAIN tasks' \/ tasks'[i].status = tasks[i].status]_vars

\* C3: a task is completed exactly when it has a result and no error, and
\* failed exactly when it has an error and no result
C3_ResultErrorIff ==
    \A i \in DOMAIN tasks :
        /\ tasks[i].status = "completed"
            <=> (Populated(tasks[i].result) /\ ~Populated(tasks[i].error))
        /\ tasks[i].status = "failed"
            <=> (Populated(tasks[i].error) /\ ~Populated(tasks[i].result))

C5_OldestPendingFirst ==
    [][\A w \in Workers :
            worker[w].pc = "idle" /\ worker'[w].pc = "locked"
            => LET id == worker'[w].task IN
               /\ id \in PendingRows
               /\ \A j \in PendingRows :
                    j \notin DOMAIN locks
                    => tasks[id].createdAt <= tasks[j].createdAt]_vars

\* a claim holds the older of two pending tasks
C5_Witness ==
    \E w \in Workers : \E j \in PendingRows :
        /\ worker[w].pc = "locked"
        /\ j # worker[w].task
        /\ j \notin DOMAIN locks
        /\ tasks[worker[w].task].status = "pending"
        /\ tasks[worker[w].task].createdAt < tasks[j].createdAt

\* C6: the commit of a claim changes exactly one row, from pending to
\* processing with progress 10, and returns its id, file name, file size and
\* status; a call answered {task: null} found no selectable row and changes
\* no row
C6_ClaimEffect ==
    [][\A w \in Workers :
            /\ worker[w].pc = "locked" /\ worker'[w].pc = "claimed"
               => LET id == worker[w].task IN
                  /\ DOMAIN tasks' = DOMAIN tasks
                  /\ tasks[id].status = "pending"
                  /\ tasks'[id].status = "processing"
                  /\ tasks'[id].progress = 10
                  /\ \A j \in DOMAIN tasks : j # id => tasks'[j] = tasks[j]
                  /\ worker'[w].resp =
                        [id |-> id, file_name |-> tasks[id].fileName,
                         file_size |-> tasks[id].fileSize, status |-> "processing"]
            /\ worker[w].resp # NullTask /\ worker'[w].resp = NullTask
               => /\ tasks' = tasks
                  /\ \A j \in PendingRows : j \in DOMAIN locks]_vars

\* a claim has returned one task while another task is still pending
C6_Witness ==
    \E w \in Workers :
        /\ worker[w].pc = "claimed"
        /\ worker[w].resp.status = "processing"
        /\ tasks[worker[w].task].progress = 10
        /\ PendingRows # {}

\* C7: the write of a Delete request that read pending or processing removes
\* no row and leaves the task cancelled and listed
C7_DeleteActiveCancels ==
    [][\A d \in DeleteReqs :
            /\ delete[d].pc = "write" /\ delete'[d].pc = "cleanup"
            /\ delete[d].status \in {"pending", "processing"}
            => /\ DOMAIN tasks' = DOMAIN tasks
               /\ delete[d].taskId \in DOMAIN tasks
                  => /\ tasks'[delete[d].taskId].status = "cancelled"
                     /\ InList(tasks', delete[d].taskId)]_vars

\* a Delete request on a pending or processing task has done its write
C7_Witness ==
    \E d \in DeleteReqs :
        /\ delete[d].pc = "cleanup"
        /\ delete[d].status \in {"pending", "processing"}
        /\ delete[d].taskId \in DOMAIN tasks
        /\ tasks[delete[d].taskId].status = "cancelled"

\* C8: the write of a Delete request that read uploading keeps the row and
\* leaves the task cancelled
C8_DeleteUploadingCancels ==
    [][\A d \in DeleteReqs :
            /\ delete[d].pc = "write" /\ delete'[d].pc = "cleanup"
            /\ delete[d].status = "uploading"
            /\ delete[d].taskId \in DOMAIN tasks
            => /\ delete[d].taskId \in DOMAIN tasks'
               /\ tasks'[delete[d].taskId].status = "cancelled"]_vars

\* C9: when a Delete request that read a terminal status answers, the row
\* and every payload file of the id are gone
C9_DeleteTerminalRemoves ==
    [][\A d \in DeleteReqs :
            /\ delete[d].pc = "cleanup" /\ delete'[d].pc = "idle"
            /\ delete[d].status \in Terminal
            => /\ delete[d].taskId \notin DOMAIN tasks'
               /\ TaskFiles(files', delete[d].taskId) = {}]_vars

\* C10: the step that answers a Create request 400 changes no row, the
\* request has inserted none, and it leaves no file of its own behind
C10_RejectedCreateNoEffect ==
    [][\A r \in CreateReqs :
            create'[r] # create[r] /\ create'[r].resp = 400
            => /\ tasks' = tasks
               /\ nextId' = nextId
               /\ create[r].taskId = 0
               /\ create[r].pc = "idle" => files' = files
               /\ create[r].pc # "idle"
                  => TempPath(create[r].temp, extname(create[r].file.ext))
                        \notin DOMAIN files']_vars

\* a Create request was rejected for its duration after its temp file was
\* written
C10_Witness ==
    \E r \in CreateReqs :
        /\ create[r].resp = 400
        /\ create[r].error = "Audio file is too long"
        /\ tasks = Empty

\* C11: the insert of a Create request adds one row, pending with progress 0
\* and no result or error, and changes no other row; the step that answers
\* 200 changes no row and leaves the payload of the request at the path of
\* its task id
C11_CreateAddsOnePendingTask ==
    [][\A r \in CreateReqs :
            /\ create[r].pc = "insert" /\ create'[r].pc = "rename"
               => LET id == create'[r].taskId IN
                  /\ id \notin DOMAIN tasks
                  /\ DOMAIN tasks' = DOMAIN tasks \cup {id}
                  /\ tasks'[id].status = "pending"
                  /\ tasks'[id].progress = 0
                  /\ tasks'[id].result = Null
                  /\ tasks'[id].error = Null
                  /\ \A j \in DOMAIN tasks : tasks'[j] = tasks[j]
            /\ create[r].pc = "rename" /\ create'[r].resp = 200
               => LET p == TaskPath(create[r].taskId, extname(create[r].file.ext)) IN
                  /\ tasks' = tasks
                  /\ p \in DOMAIN files'
                  /\ files'[p] = create[r].file]_vars

InRetry == client.pc \in {"retry_call", "retry_sleep", "retry_return"}

IsRetryableFailure(out) == ~out.ok /\ retryable(client.lib, out.err)

\* C12: when retryWithBackoff is over and the first two invocations failed
\* with a retryable error, a third invocation was made; if that one
\* succeeded, its result is returned and there were 3 invocations
C12_ThirdAttemptReturns ==
    /\ client.pc = "retry_return"
    /\ Len(client.history) >= 2
    /\ IsRetryableFailure(client.history[1])
    /\ IsRetryableFailure(client.history[2])
    => /\ Len(client.history) >= 3
       /\ client.history[3].ok
          => /\ client.ret = "value"
             /\ client.value = client.history[3].body
             /\ client.calls = 3

\* a call that failed with a retryable error twice returned the result of
\* its third invocation
C12_Witness ==
    /\ client.pc = "retry_return"
    /\ Len(client.history) = 3
    /\ IsRetryableFailure(client.history[1])
    /\ IsRetryableFailure(client.history[2])
    /\ client.history[3].ok
    /\ client.ret = "value"
    /\ client.calls = 3

\* C13: when retryWithBackoff is over and every invocation failed with a
\* retryable error, there were exactly `attempts` invocations and the last
\* error is thrown; the number of invocations never exceeds the ceiling
C13_CeilingThenThrow ==
    /\ InRetry => client.calls <= client.attempts
    /\ /\ client.pc = "retry_return"
       /\ \A k \in 1..Len(client.history) : IsRetryableFailure(client.history[k])
       => /\ client.calls = client.attempts
          /\ Len(client.history) = client.attempts
          /\ client.ret = "throw"
          /\ client.err = client.history[client.attempts].err

\* an upload that failed with a retryable error on every attempt threw
C13_Witness ==
    /\ client.pc = "retry_return"
    /\ client.label = UploadLabel
    /\ client.ret = "throw"
    /\ client.calls = client.attempts
    /\ \A k \in 1..Len(client.history) : IsRetryableFailure(client.history[k])

\* C14: when an invocation fails with a non-retryable error the call is over
\* at once: that error is thrown, every earlier invocation had failed with
\* a retryable error, and there was a backoff sleep after each of those only
C14_NonRetryableThrowsAtOnce ==
    /\ InRetry
    /\ client.history # <<>>
    /\ ~client.history[Len(client.history)].ok
    /\ ~retryable(client.lib, client.history[Len(client.history)].err)
    => /\ client.pc = "retry_return"
       /\ client.ret = "throw"
       /\ client.err = client.history[Len(client.history)].err
       /\ \A k \in 1..(Len(client.history) - 1) :
            IsRetryableFailure(client.history[k])
       /\ client.calls = Len(client.history)
       /\ Len(client.sleeps) = Len(client.history) - 1

\* a call threw a non-retryable error on the invocation after a retryable
\* failure
C14_Witness ==
    /\ client.pc = "retry_return"
    /\ client.ret = "throw"
    /\ client.calls = 2
    /\ Len(client.sleeps) = 1
    /\ IsRetryableFailure(client.history[1])
    /\ ~retryable(client.lib, client.history[2].err)

\* C15: generation calls run with a ceiling of 3 attempts, upload calls with
\* a ceiling of 5 and a base delay above that of generation calls
C15_UploadCeilingFive ==
    InRetry
    => /\ client.label \in GenerationLabels
          => client.attempts = 3 /\ client.baseDelayMs = DefaultBaseDelayMs
       /\ client.label = UploadLabel
          => client.attempts = 5 /\ client.baseDelayMs > DefaultBaseDelayMs

\* the classes of provider errors the retry policy names
Transient == {ConnReset, HeadersTimeout, ConnTimeout, Unavailable}
Permanent == {BadRequest, Malformed}

\* C16: a failed invocation that is not the last allowed one is followed by
\* a retry when the error is a connection reset, a timeout or a 5xx
\* response, and by a throw when it is a 4xx or a malformed response
C16_Classification ==
    InRetry /\ client.failed # NoError
    => /\ client.failed \in Transient /\ ~LastAttempt(client.i, client.attempts)
          => client.pc = "retry_sleep"
       /\ client.failed \in Permanent
          => client.pc = "retry_return" /\ client.ret = "throw"

\* C17: when a call to the provider (upload, status poll, generation,
\* release) fails with a retryable error on its first attempt, the call is
\* retried
C17_EveryCallRetried ==
    /\ client.failed # NoError
    /\ retryable(client.lib, client.failed)
    /\ client.i = 0
    => client.pc = "retry_sleep"

\* C18: in transcribeAudio's staged path deleteFromGemini is never called
\* twice, never without a handle, and when transcribeWithFilesAPI is over it
\* has been called once if the upload returned a handle and not at all if
\* the upload failed
C18_ReleasedExactlyOnce ==
    client.entry = "transcribeAudio"
    => /\ client.releases <= 1
       /\ client.releases = 1 => client.uploadedFile
       /\ client.path = "staged" /\ client.pc \in {"cleanup_temp", "done"}
          => client.releases = IF client.uploadedFile THEN 1 ELSE 0

\* the staged path timed out in polling and the handle was released
C18_Witness ==
    /\ client.entry = "transcribeAudio"
    /\ client.pc = "cleanup_temp"
    /\ client.ret = "throw"
    /\ client.err = TimedOut
    /\ client.uploadedFile
    /\ client.releases = 1

\* C19: waitForFileReady makes at most maxAttempts polls; a poll that
\* reports ACTIVE ends it with a return, a poll that reports a state other
\* than ACTIVE and PROCESSING ends it with the processing-failed error, the
\* poll number maxAttempts that reports PROCESSING ends it with the timeout
\* error, and an earlier PROCESSING poll leads to the next poll
C19_PollingTerminates ==
    /\ [](client.polls <= maxAttempts)
    /\ [](client.pc = "poll" => client.polls < maxAttempts)
    /\ [][client.pc = "poll" /\ client' # client /\ client'.failed = NoError
          => LET st == IF client'.pc = "retry_call" THEN "ACTIVE" ELSE client'.state
             IN /\ st = "ACTIVE"
                   => client'.pc = "retry_call" /\ client'.label \in GenerationLabels
                /\ st \notin {"ACTIVE", "PROCESSING"}
                   => /\ client'.pc # "poll"
                      /\ client'.ret = "throw"
                      /\ client'.err = ProcessingFailed
                      /\ client'.polls = client.polls + 1
                /\ st = "PROCESSING" /\ client.polls + 1 = maxAttempts
                   => /\ client'.pc # "poll"
                      /\ client'.ret = "throw"
                      /\ client'.err = TimedOut
                      /\ client'.polls = maxAttempts
                /\ st = "PROCESSING" /\ client.polls + 1 < maxAttempts
                   => client'.pc = "poll" /\ client'.polls = client.polls + 1]_vars

\* maxAttempts polls reported PROCESSING and the timeout error was thrown
C19_Witness ==
    /\ client.polls = maxAttempts
    /\ client.state = "PROCESSING"
    /\ client.ret = "throw"
    /\ client.err = TimedOut

\* C20: transcribeAudio is on the staged path exactly when the payload has
\* more than 15 * 1024 * 1024 bytes: 20 MB is staged, 15 MB is inline
C20_StagedIffAbove15MB ==
    client.pc # "idle" /\ client.entry = "transcribeAudio"
    => /\ client.path = "staged" <=> client.size > 15 * 1024 * 1024
       /\ client.path = "inline" <=> client.size <= 15 * 1024 * 1024
       /\ client.size = 20 * 1024 * 1024 => client.path = "staged"
       /\ client.size = 15 * 1024 * 1024 => client.path = "inline"

\* a payload of exactly 15 MB was transcribed inline
C20_Witness ==
    /\ client.pc = "done"
    /\ client.entry = "transcribeAudio"
    /\ client.size = 15 * 1024 * 1024
    /\ client.path = "inline"
    /\ client.ret = "value"

\* C21: a call of the Transcription Client that returns a transcript does
\* not return the empty body, on either entry and either path
C21_EmptyBodyFails ==
    client.pc = "done" /\ client.ret = "value" => client.value # EmptyBody

\* C22: the step of a worker job whose transcription call succeeded writes
\* status completed, progress 100, the transcript and a null error to the
\* row of its task, leaves the other fields of the row alone, and changes
\* no other row
C22_SuccessWrite ==
    [][\A w \in Workers :
            /\ worker[w].pc = "job_call"
            /\ worker'[w].pc = "job_cleanup"
            /\ worker'[w].outcome = "value"
            => LET id == worker[w].task IN
               /\ DOMAIN tasks' = DOMAIN tasks
               /\ \A j \in DOMAIN tasks : j # id => tasks'[j] = tasks[j]
               /\ id \in DOMAIN tasks
                  => tasks'[id] =
                        [tasks[id] EXCEPT !.status = "completed", !.progress = 100,
                                          !.result = Transcript, !.error = Null,
                                          !.updatedAt = now]]_vars

\* a job has completed its task while another task exists and is not
\* completed
C22_Witness ==
    \E w \in Workers : \E j \in DOMAIN tasks :
        /\ worker[w].pc = "job_cleanup"
        /\ worker[w].outcome = "value"
        /\ j # worker[w].task
        /\ tasks[j].status # "completed"
        /\ tasks[worker[w].task].status = "completed"
        /\ tasks[worker[w].task].result = Transcript

\* C23: the step of a worker job whose transcription call threw writes
\* status failed, progress 0 and the message of the error to the row of its
\* task and to no other row, and the error is rethrown; no task is handed to
\* the worker layer twice, and the worker drops the task when the job ends
C23_FailureWrite ==
    /\ [](\A i \in DOMAIN claimCount : claimCount[i] <= 1)
    /\ [][\A w \in Workers :
            /\ /\ worker[w].pc = "job_call"
               /\ worker'[w].pc = "job_cleanup"
               /\ worker'[w].outcome # "value"
               => LET id == worker[w].task IN
                  /\ worker'[w].outcome = "throw"
                  /\ worker'[w].message \in JobErrors
                  /\ DOMAIN tasks' = DOMAIN tasks
                  /\ \A j \in DOMAIN tasks : j # id => tasks'[j] = tasks[j]
                  /\ id \in DOMAIN tasks
                     => tasks'[id] =
                           [tasks[id] EXCEPT !.status = "failed", !.progress = 0,
                                             !.error = worker'[w].message,
                                             !.updatedAt = now]
            /\ worker[w].pc = "job_cleanup" /\ worker'[w] # worker[w]
               => worker'[w].pc = "idle" /\ worker'[w].task = 0]_vars

\* a job whose transcription timed out has marked its task failed
C23_Witness ==
    \E w \in Workers :
        /\ worker[w].pc = "job_cleanup"
        /\ worker[w].outcome = "throw"
        /\ worker[w].message = TimedOut.message
        /\ tasks[worker[w].task].status = "failed"
        /\ tasks[worker[w].task].progress = 0
        /\ tasks[worker[w].task].error = TimedOut.message

\* C24: when a worker job ends, after its cleanup or in the read of the
\* payload, the payload file of its task does not exist
C24_PayloadGoneAfterJob ==
    [][\A w \in Workers :
            worker[w].pc \in {"job_read", "job_cleanup"} /\ worker'[w].pc = "idle"
            => JobFilePath(w) \notin DOMAIN files']_vars

\* a worker stopped after its claim and before a terminal write of its task
Orphaned(w) ==
    /\ worker[w].pc = "crashed"
    /\ worker[w].task \in DOMAIN tasks
    /\ tasks[worker[w].task].status = "processing"

\* a Delete request for task id is being served
DeleteRequested(id) ==
    \E d \in DeleteReqs : delete[d].taskId = id \/ delete'[d].taskId = id

\* C25: the task of a worker that stopped between claim and terminal write
\* stays in status processing in every step, except the steps of a Delete
\* request for it, and no task is claimed twice
C25_OrphanStaysProcessing ==
    /\ [](\A i \in DOMAIN claimCount : claimCount[i] <= 1)
    /\ [][\A w \in Workers :
            Orphaned(w) /\ ~DeleteRequested(worker[w].task)
            => /\ worker[w].task \in DOMAIN tasks'
               /\ tasks'[worker[w].task].status = "processing"]_vars

\* a request has just reached a worker endpoint
Arrival ==
    reply' # reply /\ reply'.endpoint \in WorkerEndpoints /\ reply'.status \in {0, 401}

\* the request a handler of w is serving carries the matching bearer token
Authorized(w, endpoint) ==
    /\ reply.caller = w
    /\ reply.endpoint = endpoint
    /\ reply.authHeader = Bearer(WORKER_API_KEY)
    /\ reply.status = 0

\* C26: with a worker API key configured, a request to a worker endpoint
\* whose Authorization header is not the matching bearer token is answered
\* 401 and changes no task row, no payload file and no lock; a handler of a
\* worker endpoint starts only for a request with the matching token, and a
\* pending task becomes processing only under the lock such a claim took
C26_WorkerAuth ==
    /\ WORKER_API_KEY # ""
    /\ [][Arrival /\ reply'.authHeader # Bearer(WORKER_API_KEY)
            => /\ reply'.status = 401
               /\ reply'.body = Unauthorized
               /\ tasks' = tasks /\ files' = files /\ locks' = locks
               /\ worker' = worker]_vars
    /\ [][\A w \in Workers :
            /\ worker[w].pc = "idle" /\ worker'[w] # worker[w]
               => Authorized(w, "GET /api/worker/tasks")
            /\ worker[w].pc \in {"claimed", "polling"} /\ worker'[w] # worker[w]
               => Authorized(w, "PATCH /api/worker/tasks")]_vars
    /\ [][files' # files /\ create' = create
            => \E w \in Workers : Authorized(w, "DELETE /api/worker/tasks/[id]/file")]_vars
    /\ [][\A i \in DOMAIN tasks :
            /\ tasks[i].status = "pending"
            /\ i \in DOMAIN tasks'
            /\ tasks'[i].status # "pending"
            /\ create' = create
            => \E w \in Workers : worker[w].pc = "locked" /\ worker[w].task = i]_vars

\* a claim request carrying the key without the Bearer scheme was answered
\* 401 while a pending task was waiting
C26_Witness ==
    /\ reply.endpoint = "GET /api/worker/tasks"
    /\ reply.authHeader = WORKER_API_KEY
    /\ reply.status = 401
    /\ \E i \in DOMAIN tasks : tasks[i].status = "pending"

\* C30: Download answers 200 only for a completed task with a non-empty
\* result, the body being the text of that result; every other answer
\* carries an error body and no transcript; a task that exists in another
\* status is answered 400, an id with no task 404
C30_DownloadOnlyCompleted ==
    [][reply' # reply /\ reply'.endpoint = DownloadEndpoint
        => LET id == reply'.id
               approved == reply'.session.user # Null
                           /\ reply'.session.status = "APPROVED"
           IN
           /\ reply'.status = 200
              => /\ id \in DOMAIN tasks
                 /\ tasks[id].status = "completed"
                 /\ tasks[id].result \notin {Null, ""}
                 /\ reply'.body = textContent(tasks[id].result)
           /\ reply'.status # 200 => reply'.body \in ErrorBodies
           /\ approved /\ reply'.session.isAdmin /\ id \in DOMAIN tasks
                /\ tasks[id].status # "completed"
              => reply'.status = 400
           /\ approved /\ id \notin DOMAIN tasks => reply'.status = 404]_vars

\* Download was answered 400 for a task that carries a transcript but is not
\* completed
C30_Witness ==
    /\ reply.endpoint = DownloadEndpoint
    /\ reply.status = 400
    /\ reply.id \in DOMAIN tasks
    /\ tasks[reply.id].status # "completed"
    /\ tasks[reply.id].result = Transcript

\* the rows that exist before and after a step
Kept == (DOMAIN tasks) \cap (DOMAIN tasks')

\* C27: every step that changes a task row sets its updatedAt to the time
\* of the step, so updatedAt never decreases and is never behind the clock
\* of the last change
C27_UpdatedAtFollowsWrites ==
    /\ [](\A i \in DOMAIN tasks : tasks[i].updatedAt <= now)
    /\ [][\A i \in Kept :
            tasks'[i] # tasks[i]
            => /\ tasks'[i].updatedAt = now
               /\ tasks'[i].updatedAt >= tasks[i].updatedAt]_vars
    /\ [][\A i \in (DOMAIN tasks') \ (DOMAIN tasks) : tasks'[i].updatedAt = now]_vars

\* a task soft-cancelled at a later time than it was created
C27_Witness ==
    \E i \in DOMAIN tasks :
        tasks[i].status = "cancelled" /\ tasks[i].updatedAt > tasks[i].createdAt

C29_CreationFieldsFrozen ==
    /\ [](\A i \in DOMAIN tasks : i <= nextId)
    /\ [][\A i \in (DOMAIN tasks') \ (DOMAIN tasks) : i > nextId]_vars
    /\ [][\A i \in Kept :
            /\ tasks'[i].fileName = tasks[i].fileName
            /\ tasks'[i].fileSize = tasks[i].fileSize
            /\ tasks'[i].createdAt = tasks[i].createdAt]_vars

\* a task completed through PATCH at a later time than it was created
C29_Witness ==
    \E i \in DOMAIN tasks :
        /\ tasks[i].status = "completed"
        /\ tasks[i].updatedAt > tasks[i].createdAt
        /\ tasks[i].fileName \in {".mp3", ".MP3"}

\* the Create requests that have written their intermediate file and not
\* yet moved or removed it
HoldsTemp(r) == create[r].pc \in {"probe", "insert", "rename"}

\* C31: no two Create requests hold the same intermediate path at the same
\* time
C31_PathsDisjoint ==
    \A r1, r2 \in CreateReqs :
        r1 # r2 /\ HoldsTemp(r1) /\ HoldsTemp(r2)
        => TempPath(create[r1].temp, extname(create[r1].file.ext))
            # TempPath(create[r2].temp, extname(create[r2].file.ext))

\* C33: a completed or failed task is never set to cancelled, and no
\* cancelled task carries a result
C33_DeleteRaceSafe ==
    /\ [](\A i \in DOMAIN tasks :
            tasks[i].status = "cancelled" => tasks[i].result = Null)
    /\ [][\A i \in Kept :
            tasks[i].status \in {"completed", "failed"}
            => tasks'[i].status # "cancelled"]_vars

\* C34: the commit of a claim call returns a task that was pending until
\* that step, so a task that left pending without a claim (cancelled or
\* failed) is never handed out
C34_ClaimOnlyPending ==
    /\ [][\A w \in Workers :
            worker[w].pc = "locked" /\ worker'[w].pc = "claimed"
            => /\ tasks[worker[w].task].status = "pending"
               /\ worker'[w].resp.id = worker[w].task]_vars
    /\ [][\A w \in Workers :
            worker[w].pc = "idle" /\ worker'[w].pc = "locked"
            => tasks[worker'[w].task].status = "pending"]_vars
    /\ [][\A i \in Kept :
            tasks[i].status # "pending" => tasks'[i].status # "pending"]_vars
    /\ [](\A i \in DOMAIN tasks :
            tasks[i].status \in {"cancelled", "failed", "completed"} /\ claimCount[i] = 0
            => \A w \in Workers : worker[w].task # i)

\* a claim call found nothing to hand out while a task cancelled before any
\* claim was in the table
C34_Witness ==
    \E w \in Workers : \E i \in DOMAIN tasks :
        /\ tasks[i].status = "cancelled"
        /\ claimCount[i] = 0
        /\ worker[w].pc = "idle"
        /\ worker[w].resp = NullTask

\* C36: the steps of a Delete request that read pending or processing change
\* only the status and updatedAt of its task and leave every file in place
C36_SoftCancelKeepsPayload ==
    [][\A d \in DeleteReqs :
            /\ delete[d].pc \in {"write", "cleanup"}
            /\ delete'[d] # delete[d]
            /\ IsActive(delete[d].status)
            => /\ files' = files
               /\ \A i \in Kept :
                    tasks'[i] = [tasks[i] EXCEPT !.status = tasks'[i].status,
                                                 !.updatedAt = tasks'[i].updatedAt]]_vars

\* C38: the step of a Create request that answers 500 after its insert
\* leaves the task, if it still has a row, failed with an error, and leaves
\* no payload file of that task; and a task whose Create request is over is
\* never pending without its payload file
C38_CreateFailureMarksFailed ==
    /\ [][\A r \in CreateReqs :
            create[r].pc = "markfailed" /\ create'[r].pc = "idle"
            => LET id == create[r].taskId IN
               /\ create'[r].resp = 500
               /\ \A ext \in {".mp3", ".MP3", ".txt", ""} :
                    TaskPath(id, ext) \notin DOMAIN files'
               /\ id \in DOMAIN tasks
                  => /\ tasks'[id].status = "failed"
                     /\ tasks'[id].error # Null]_vars
    /\ [](\A i \in DOMAIN tasks :
            /\ tasks[i].status = "pending"
            /\ \A r \in CreateReqs : create[r].taskId # i
            => TaskPath(i, tasks[i].fileName) \in DOMAIN files)

\* a Create request answered 500 and its task is failed
C38_Witness ==
    \E r \in CreateReqs : \E i \in DOMAIN tasks :
        /\ create[r].resp = 500
        /\ create[r].error = "Failed to create task"
        /\ tasks[i].status = "failed"
        /\ tasks[i].error = "rename failed"

\* C39: in transcribeAudioSimple's staged path, when the call is over the
\* handle the upload returned has been released
C39_SimpleStagedReleased ==
    /\ client.entry = "transcribeAudioSimple"
    /\ client.path = "staged"
    /\ client.pc \in {"cleanup_temp", "done"}
    /\ client.uploadedFile
    => client.releases = 1

\* C35: a task whose job has written processing and goes on to read the
\* payload is later completed or failed (or its row deleted)
C35_JobsReachTerminal ==
    \A i \in TaskIds :
        (\E w \in Workers : worker[w].pc = "job_read" /\ worker[w].task = i)
        ~> (i \notin DOMAIN tasks \/ tasks[i].status \in {"completed", "failed"})

\* the task is pending, its Create request is over
Waiting(i) ==
    /\ i \in DOMAIN tasks
    /\ tasks[i].status = "pending"
    /\ \A r \in CreateReqs : create[r].taskId # i

Principal(q) ==
    IF q.userId # Null THEN q.userId
    ELSE IF q.email \in Emails THEN UserIdOf(q.email) ELSE Null

\* C32: a lookup without the valid token is answered 401 with no task;
\* every task a lookup returns is owned by the principal asked for and,
\* when a status filter is given, has one of the statuses of the filter
C32_LookupScoped ==
    reply.endpoint = InternalEndpoint
    => /\ reply.authHeader # INTERNAL_API_TOKEN
          => reply.status = 401 /\ reply.rows = <<>>
       /\ \A k \in 1..Len(reply.rows) :
            /\ reply.rows[k].userId = Principal(reply.query)
            /\ reply.query.status # Null
               => StatusMatchesAny(reply.rows[k], statusValues(reply.query.status))
====
